---- MODULE Spec2Model ----
(***************************************************************************)
(* Model of examples/advanced_webcam_demo.py: the WebcamColorExtractor     *)
(* main loop (run), the background extraction thread                       *)
(* (extract_colors_async / fallback_color_extraction) and the video        *)
(* segment recorder (setup_video_recording / write_video_frame /           *)
(* finish_video_segment).                                                  *)
(*                                                                         *)
(* Time is counted in tenths of a second, so extraction_interval (0.1 s)   *)
(* is 1 and video_segment_duration (30 s) is 300.                          *)
(***************************************************************************)
EXTENDS Integers, Sequences, FiniteSets, TLC

\* ------------------------------------------------------------------ bounds
\* frames the camera delivers before cap.read() can only fail
MaxFrames == 2
\* number of times the wall clock advances during a run
MaxTicks == 1
\* largest frame width delivered by the camera
MaxDim == 1
\* largest n_colors given to the constructor
MaxColors == 1
\* largest sample (pixels of the ROI) and largest n_colors given to the
\* clustering engine when it is explored on its own
MaxPixels == 4
MaxK == 4
\* largest of the small frame sides given to the ROI sampler when it is
\* explored on its own
MaxSide == 3

\* amounts (tenths of a second) by which the wall clock advances
TickSteps == {1, 2, 300}

\* frame shapes <<width, height>> the camera may deliver: an empty frame and
\* one-row frames of 1..MaxDim pixels
Shapes == {<<0, 0>>} \cup {<<w, 1>> : w \in 1..MaxDim}

\* ------------------------------------------------------- program constants
extraction_interval == 1
video_segment_duration == 30 * 10
circle_radius == 50

None == 0
MainThread == -1

\* ------------------------------------------------------------------- state
VARIABLES
    pc,                   \* position of the main thread in main() / run()
    now,                  \* the wall clock, time.time()
    ticks,                \* number of clock advances so far
    n_colors,             \* self.n_colors
    shape,                \* <<width, height>> of the frames of the camera
    frame,                \* the frame of the current iteration
    nframes,              \* frames read so far
    current_colors,       \* self.current_colors
    last_extraction_time, \* self.last_extraction_time
    extraction_thread,    \* self.extraction_thread: None or a thread id
    roi_for_extraction,   \* self.roi_for_extraction: <<>> (None) or <<the ROI copy>>
    extraction_lock,      \* owner of self.extraction_lock: None, MainThread, thread id
    threads,              \* the extraction threads, by id
    published,            \* (palette, timestamp) of the last finished publication
    record_video,         \* self.record_video
    video_writer,         \* self.video_writer: None or a sink handle
    video_start_time,     \* self.video_start_time (-1 is None)
    video_segment_count,  \* self.video_segment_count
    recording_active,     \* self.recording_active
    sinks,                \* every cv2.VideoWriter ever constructed, by handle
    exit_path,            \* how the main loop was left
    last_trigger,         \* time.time() at the last call of line 497 (-1: none yet)
    arg,                  \* <<the argument>> of a helper called on its own, or <<>>
    ret                   \* <<what that call returned>>, or <<>> before it returns

vars == <<pc, now, ticks, n_colors, shape, frame, nframes,
          current_colors, last_extraction_time, extraction_thread,
          roi_for_extraction, extraction_lock, threads, published,
          record_video, video_writer, video_start_time, video_segment_count,
          recording_active, sinks, exit_path, last_trigger, arg, ret>>

workerVars == <<current_colors, last_extraction_time, extraction_thread,
                roi_for_extraction, extraction_lock, threads, published>>
recorderVars == <<record_video, video_writer, video_start_time,
                  video_segment_count, recording_active, sinks>>
clockVars == <<now, ticks>>
callVars == <<arg, ret>>
runVars == <<n_colors, shape>>

\* --------------------------------------------------------------- helpers
Max(a, b) == IF a >= b THEN a ELSE b
Min(a, b) == IF a <= b THEN a ELSE b
Range(s) == {s[i] : i \in DOMAIN s}
Last(s) == s[Len(s)]
Take(s, n) == SubSeq(s, 1, Min(n, Len(s)))

LoopPcs == {"read", "cadence", "circle", "table", "table_locked", "table_drawn",
            "fps", "indicator", "footer", "write", "show", "key", "forced",
            "toggle"}
Exited == pc \in {"returned", "aborted"}

\* --------------------------------------------------------- ROI sampler
\* a sampler that does not clip the far edges of the rectangle to the frame
extract_roi_from_circle_unclamped(f) ==
    LET width == f.w
        height == f.h
        center_x == width \div 2
        center_y == height \div 2
    IN  [x1 |-> Max(0, center_x - circle_radius),
         y1 |-> Max(0, center_y - circle_radius),
         x2 |-> center_x + circle_radius,
         y2 |-> center_y + circle_radius,
         src |-> f.id,
         overlays |-> f.drawn]

\* extract_roi_from_circle: the rectangle frame[y1:y2, x1:x2]
extract_roi_from_circle(f) ==
    LET width == f.w
        height == f.h
        center_x == width \div 2
        center_y == height \div 2
    IN  [x1 |-> Max(0, center_x - circle_radius),
         y1 |-> Max(0, center_y - circle_radius),
         x2 |-> Min(width, center_x + circle_radius),
         y2 |-> Min(height, center_y + circle_radius),
         src |-> f.id,
         overlays |-> f.drawn]

\* roi.size: rows * columns * channels of the slice
RoiSize(roi) == Max(0, roi.y2 - roi.y1) * Max(0, roi.x2 - roi.x1) * 3

\* len(data) after reshape((-1, 3))
RoiPixels(roi) == RoiSize(roi) \div 3

\* ------------------------------------------------ fast clustering engine
\* np.unique(labels, return_counts=True): the labels that occur, ascending,
\* each with its pixel count; one palette entry per such label
\* a count that also takes in the pixels of the clusters before l
CountUpTo(labels, l) == Cardinality({i \in DOMAIN labels : labels[i] <= l})

CountOf(labels, l) == Cardinality({i \in DOMAIN labels : labels[i] = l})

\* a colour list with one entry for every cluster, also for a cluster that
\* got no pixel
RECURSIVE EntriesOfAllClusters(_, _, _)
EntriesOfAllClusters(labels, l, k) ==
    IF l >= k THEN <<>>
    ELSE <<[label |-> l, count |-> CountOf(labels, l), total |-> Len(labels)]>>
         \o EntriesOfAllClusters(labels, l + 1, k)

RECURSIVE EntriesFrom(_, _, _)
EntriesFrom(labels, l, k) ==
    IF l >= k THEN <<>>
    ELSE LET rest == EntriesFrom(labels, l + 1, k)
             c == CountOf(labels, l)
         IN  IF c = 0 THEN rest
             ELSE <<[label |-> l, count |-> c, total |-> Len(labels)]>> \o rest

\* an insertion that puts an entry before the entries of equal percentage
RECURSIVE InsertDescUnstable(_, _)
InsertDescUnstable(e, s) ==
    IF s = <<>> THEN <<e>>
    ELSE IF Head(s).count > e.count THEN <<Head(s)>> \o InsertDescUnstable(e, Tail(s))
    ELSE <<e>> \o s

\* colors.sort(key=percentage, reverse=True): stable, descending
RECURSIVE InsertDesc(_, _)
InsertDesc(e, s) ==
    IF s = <<>> THEN <<e>>
    ELSE IF Head(s).count >= e.count THEN <<Head(s)>> \o InsertDesc(e, Tail(s))
    ELSE <<e>> \o s

RECURSIVE SortByPercentage(_)
SortByPercentage(s) ==
    IF s = <<>> THEN <<>>
    ELSE InsertDesc(Last(s), SortByPercentage(SubSeq(s, 1, Len(s) - 1)))

\* lines 110-130: the sorted colour list of one k-means labelling
ColorsOf(labels, k) == SortByPercentage(EntriesFrom(labels, 0, k))

\* ------------------------------------------------------- colour helpers
\* a contrast function that takes an average of exactly 127 for light
get_xor_color_light_at_127(background_color) ==
    LET r == background_color[1]
        g == background_color[2]
        b == background_color[3]
        xor_r == 255 - r
        xor_g == 255 - g
        xor_b == 255 - b
        Abs(x) == IF x < 0 THEN -x ELSE x
    IN  IF Abs(xor_r - r) + Abs(xor_g - g) + Abs(xor_b - b) < 300
        THEN IF r + g + b >= 3 * 127 THEN <<0, 0, 0>> ELSE <<255, 255, 255>>
        ELSE <<xor_r, xor_g, xor_b>>

\* a contrast function that answers a light background with white and a
\* dark one with black
get_xor_color_same_tone(background_color) ==
    LET r == background_color[1]
        g == background_color[2]
        b == background_color[3]
        xor_r == 255 - r
        xor_g == 255 - g
        xor_b == 255 - b
        Abs(x) == IF x < 0 THEN -x ELSE x
    IN  IF Abs(xor_r - r) + Abs(xor_g - g) + Abs(xor_b - b) < 300
        THEN IF r + g + b > 3 * 127 THEN <<255, 255, 255>> ELSE <<0, 0, 0>>
        ELSE <<xor_r, xor_g, xor_b>>

\* get_xor_color (lines 34-52); (r + g + b) / 3 > 127 is a float comparison,
\* which holds exactly when r + g + b > 3 * 127
get_xor_color(background_color) ==
    LET r == background_color[1]
        g == background_color[2]
        b == background_color[3]
        xor_r == 255 - r
        xor_g == 255 - g
        xor_b == 255 - b
        Abs(x) == IF x < 0 THEN -x ELSE x
    IN  IF Abs(xor_r - r) + Abs(xor_g - g) + Abs(xor_b - b) < 300
        THEN IF r + g + b > 3 * 127 THEN <<0, 0, 0>> ELSE <<255, 255, 255>>
        ELSE <<xor_r, xor_g, xor_b>>

\* a string is the sequence of its characters
LowerHexDigits ==
    <<"0", "1", "2", "3", "4", "5", "6", "7", "8", "9", "a", "b", "c", "d", "e", "f">>
UpperHexDigits ==
    <<"0", "1", "2", "3", "4", "5", "6", "7", "8", "9", "A", "B", "C", "D", "E", "F">>
HexChars == Range(LowerHexDigits) \cup Range(UpperHexDigits)

\* int(c, 16) of one hexadecimal digit of either case
DigitValue(c) ==
    (CHOOSE i \in 1..16 : LowerHexDigits[i] = c \/ UpperHexDigits[i] = c) - 1

\* str.lstrip('#')
RECURSIVE lstrip(_)
lstrip(str) ==
    IF str /= <<>> /\ Head(str) = "#" THEN lstrip(Tail(str)) ELSE str

\* hex_to_rgb of a str (lines 169-183): int(.., 16) raises ValueError on a
\* character that is no hexadecimal digit, and (0, 0, 0) is returned
hex_to_rgb(hex_color) ==
    LET hex == lstrip(hex_color)
    IN  IF Len(hex) /= 6 THEN <<0, 0, 0>>
        ELSE IF \E i \in 1..6 : hex[i] \notin HexChars THEN <<0, 0, 0>>
        ELSE <<16 * DigitValue(hex[1]) + DigitValue(hex[2]),
               16 * DigitValue(hex[3]) + DigitValue(hex[4]),
               16 * DigitValue(hex[5]) + DigitValue(hex[6])>>

\* f"{v:02X}": a formatting in capitals
TwoDigitsUpper(v) == <<UpperHexDigits[(v \div 16) + 1], UpperHexDigits[(v % 16) + 1]>>

\* f"{v:02x}" of a channel 0..255
TwoDigits(v) == <<LowerHexDigits[(v \div 16) + 1], LowerHexDigits[(v % 16) + 1]>>

\* rgb_to_hex (lines 185-190)
rgb_to_hex(rgb) ==
    IF Len(rgb) >= 3
    THEN <<"#">> \o TwoDigits(rgb[1]) \o TwoDigits(rgb[2]) \o TwoDigits(rgb[3])
    ELSE <<"#", "0", "0", "0", "0", "0", "0">>

\* a Python value of a palette entry: a tuple of numbers, a str (its
\* characters) or a number
TupleValue(t) == [is |-> "tuple", v |-> t]
StrValue(str) == [is |-> "str", v |-> str]
NumValue(n) == [is |-> "num", v |-> <<n>>]

\* hex_to_bgr (lines 139-160)
hex_to_bgr(hex_color) ==
    IF hex_color.is = "tuple"
    THEN IF Len(hex_color.v) >= 3
         THEN <<hex_color.v[3], hex_color.v[2], hex_color.v[1]>>
         ELSE <<0, 0, 0>>
    ELSE IF hex_color.is /= "str" THEN <<0, 0, 0>>
    ELSE LET rgb == hex_to_rgb(hex_color.v) IN <<rgb[3], rgb[2], rgb[1]>>

\* a palette entry as draw_color_table receives it: a dict (its items in
\* insertion order), a tuple (one item without a key) or something else
Keys(color) == {color.items[i].key : i \in DOMAIN color.items}
Lookup(color, key, default) ==
    IF key \in Keys(color)
    THEN color.items[CHOOSE i \in DOMAIN color.items : color.items[i].key = key].val
    ELSE default

\* the names draw_color_table binds for one entry (lines 231-267)
parse_entry(color) ==
    LET gray == [hex_color |-> StrValue(<<"#", "8", "0", "8", "0", "8", "0">>),
                 rgb_color |-> TupleValue(<<128, 128, 128>>),
                 percentage |-> NumValue(0)]
        from(value) ==
            [hex_color |-> StrValue(IF value.is = "tuple" THEN rgb_to_hex(value.v)
                                    ELSE <<"#", "0", "0", "0", "0", "0", "0">>),
             rgb_color |-> value,
             percentage |-> Lookup(color, "percentage", NumValue(0))]
    IN  IF color.type = "dict"
        THEN IF "hex" \in Keys(color)
             THEN [hex_color |-> Lookup(color, "hex", NumValue(0)),
                   rgb_color |-> Lookup(color, "rgb", TupleValue(<<0, 0, 0>>)),
                   percentage |-> Lookup(color, "percentage", NumValue(0))]
             ELSE IF "rgb" \in Keys(color)
             THEN from(Lookup(color, "rgb", NumValue(0)))
             ELSE IF color.items /= <<>>
             THEN LET first_value == color.items[1].val
                  IN  IF first_value.is = "tuple" /\ Len(first_value.v) >= 3
                      THEN from(first_value)
                      ELSE gray
             ELSE gray
        ELSE IF color.type = "tuple" /\ Len(color.items[1].val.v) >= 3
        THEN [hex_color |-> StrValue(rgb_to_hex(color.items[1].val.v)),
              rgb_color |-> TupleValue(Take(color.items[1].val.v, 3)),
              percentage |-> NumValue(20)]
        ELSE gray

\* one row of draw_color_table (lines 226-310): the swatch is painted from
\* rgb_color (lines 270-272) before the texts are formatted; .upper() of a
\* hex that is no str and the .1f format of a percentage that is no number
\* raise into the handler of lines 281-287, which replaces the texts and
\* the bar's colour
draw_row(color) ==
    LET e == parse_entry(color)
        swatch == hex_to_bgr(e.rgb_color)
        raised == e.hex_color.is /= "str" \/ e.percentage.is /= "num"
    IN  [swatch |-> swatch,
         color_bgr |-> IF raised THEN <<128, 128, 128>> ELSE swatch,
         placeholder_text |-> raised]

\* draw_color_table (lines 192-313): nothing for an empty palette, else one
\* row per entry
draw_color_table(colors) == [i \in DOMAIN colors |-> draw_row(colors[i])]

\* a cluster centre is the mean of its pixels: each channel is a fraction
\* <<n, d>>, the sum n of the channel over the d pixels of the cluster
\* np.uint8(x) of a float32 x in [0, 256) (line 111): the fraction is dropped
uint8(x) == (x[1] \div x[2]) % 256

\* lines 118-127: the entry of one cluster, from its centre in the frame's
\* channel order b, g, r
palette_entry(center) ==
    LET b == uint8(center[1])
        g == uint8(center[2])
        r == uint8(center[3])
    IN  [rgb |-> <<r, g, b>>,
         hex |-> <<"#">> \o TwoDigits(r) \o TwoDigits(g) \o TwoDigits(b)]

\* ------------------------------------------------------------ init
\* the state after WebcamColorExtractor(n_colors, record_video), with
\* n_colors taken from `counts` and the camera's frame shape from `shapes`
Start(counts, shapes) ==
    /\ pc = "init"
    /\ now = 10
    /\ ticks = 0
    /\ n_colors \in counts
    /\ shape \in shapes
    /\ frame = [id |-> 0, w |-> 0, h |-> 0, drawn |-> <<>>]
    /\ nframes = 0
    /\ current_colors = <<>>
    /\ last_extraction_time = 0
    /\ extraction_thread = None
    /\ roi_for_extraction = <<>>
    /\ extraction_lock = None
    /\ threads = <<>>
    /\ published = [colors |-> <<>>, time |-> 0]
    /\ record_video \in BOOLEAN
    /\ video_writer = None
    /\ video_start_time = -1
    /\ video_segment_count = 1
    /\ recording_active = FALSE
    /\ sinks = <<>>
    /\ exit_path = "none"
    /\ last_trigger = -1

\* no helper is called on its own
NoCall == arg = <<>> /\ ret = <<>>

Init == Start(0..MaxColors, Shapes) /\ NoCall

\* ------------------------------------------------------ the wall clock
Tick ==
    /\ ~Exited
    /\ ticks < MaxTicks
    /\ \E d \in TickSteps : now' = now + d
    /\ ticks' = ticks + 1
    /\ UNCHANGED <<pc, n_colors, shape, frame, nframes, exit_path, last_trigger>>
    /\ UNCHANGED workerVars
    /\ UNCHANGED recorderVars
    /\ UNCHANGED callVars

\* ------------------------------------------------- extraction worker
\* threading.Thread.is_alive(): started and run() not yet finished
is_alive(t) == threads[t].pc /= "dead"

\* a guard that never finds a job in flight
JobInFlightNever == FALSE

\* a guard that takes a thread for alive as soon as one was ever started
JobInFlightStale == extraction_thread /= None

\* a guard that takes a thread for finished as soon as its clustering is done
JobInFlightClustering ==
    extraction_thread /= None /\ threads[extraction_thread].pc = "started"

\* line 71: the single-flight guard of extract_colors_async
JobInFlight == extraction_thread /= None /\ is_alive(extraction_thread)

\* locals of a thread: its position, its colour list, the timestamp it wrote,
\* whether its clustering raised, the ROI it clustered, and whether it was
\* started after a thread whose clustering raised
NewThread == [pc |-> "started", colors |-> <<>>, stamp |-> 0, failed |-> FALSE,
              input |-> <<>>, retry |-> FALSE]

\* threading.Thread(target=extract).start(), lines 88-90: one more thread;
\* threads that are no longer alive are dropped from the table, so that a
\* thread id names a thread among those alive
StartThread ==
    LET new == [NewThread EXCEPT !.retry = \E t \in DOMAIN threads : threads[t].failed]
    IN  IF \A t \in DOMAIN threads : ~is_alive(t)
        THEN <<new>>
        ELSE Append(threads, new)

\* a trigger without the check of lines 76-77
extract_colors_async_unchecked(f) ==
    IF JobInFlight
    THEN UNCHANGED workerVars
    ELSE /\ roi_for_extraction' = <<extract_roi_from_circle(f)>>
         /\ threads' = StartThread
         /\ extraction_thread' = Len(StartThread)
         /\ UNCHANGED <<current_colors, last_extraction_time,
                        extraction_lock, published>>

\* extract_colors_async(frame), called on the main thread
extract_colors_async(f) ==
    IF JobInFlight
    THEN UNCHANGED workerVars
    ELSE LET roi == extract_roi_from_circle(f)
         IN  IF RoiSize(roi) = 0
             THEN UNCHANGED workerVars
             ELSE /\ roi_for_extraction' = <<roi>>
                  /\ threads' = StartThread
                  /\ extraction_thread' = Len(StartThread)
                  /\ UNCHANGED <<current_colors, last_extraction_time,
                                 extraction_lock, published>>

mainLocal == <<pc, n_colors, shape, frame, nframes, exit_path, last_trigger, arg, ret>>

WorkerFrame ==
    /\ UNCHANGED mainLocal
    /\ UNCHANGED clockVars
    /\ UNCHANGED recorderVars

\* line 95: self.roi_for_extraction is None or self.roi_for_extraction.size == 0
NoRoi == roi_for_extraction = <<>> \/ RoiSize(roi_for_extraction[1]) = 0

\* line 104: k = min(self.n_colors, len(data))
EffectiveK(roi) == Min(n_colors, RoiPixels(roi))

\* a check that lets every k through to the clustering
TooFewClustersNever(roi) == FALSE

\* line 105: k < 1
TooFewClusters(roi) == EffectiveK(roi) < 1

\* lines 95-96, 104-106: fallback_color_extraction returns before clustering
ClusterSkip(t) ==
    /\ ~Exited
    /\ threads[t].pc = "started"
    /\ \/ NoRoi
       \/ TooFewClusters(roi_for_extraction[1])
    /\ threads' = [threads EXCEPT ![t].pc = "returning"]
    /\ UNCHANGED <<current_colors, last_extraction_time, extraction_thread,
                   roi_for_extraction, extraction_lock, published>>
    /\ WorkerFrame

\* a handler that leaves the thread hanging after the error
OnClusteringErrorStuck(th) == [th EXCEPT !.pc = "crashed", !.failed = TRUE]

\* lines 136-137 (and 85-86): what a thread becomes when the clustering raises
OnClusteringError(th) == [th EXCEPT !.pc = "returning", !.failed = TRUE]

\* cv2.kmeans (line 108) or the lines after it raise: the exception is caught
\* inside the thread
ClusterFail(t) ==
    /\ ~Exited
    /\ threads[t].pc = "started"
    /\ ~NoRoi
    /\ ~TooFewClusters(roi_for_extraction[1])
    /\ threads' = [threads EXCEPT ![t] = OnClusteringError(@)]
    /\ UNCHANGED <<current_colors, last_extraction_time, extraction_thread,
                   roi_for_extraction, extraction_lock, published>>
    /\ WorkerFrame

\* a snapshot that is a view of the frame: the thread sees what was drawn on
\* the frame since
stored_pixels_view(roi) ==
    IF roi.src = frame.id THEN [roi EXCEPT !.overlays = frame.drawn] ELSE roi

\* line 79 stores roi.copy(), an array of its own, so what the thread reads
\* from self.roi_for_extraction (line 99) is what was stored
stored_pixels(roi) == roi

\* lines 98-130: k-means labels every pixel, the colour list is built and sorted
ClusterOk(t) ==
    /\ ~Exited
    /\ threads[t].pc = "started"
    /\ ~NoRoi
    /\ ~TooFewClusters(roi_for_extraction[1])
    /\ LET n == RoiPixels(roi_for_extraction[1])
           k == EffectiveK(roi_for_extraction[1])
       IN  /\ k >= 1
           /\ \E labels \in [1..n -> 0..(k - 1)] :
                 threads' = [threads EXCEPT ![t].pc = "computed",
                                            ![t].colors = ColorsOf(labels, k),
                                            ![t].input =
                                                <<stored_pixels(roi_for_extraction[1])>>]
    /\ UNCHANGED <<current_colors, last_extraction_time, extraction_thread,
                   roi_for_extraction, extraction_lock, published>>
    /\ WorkerFrame

\* a worker that publishes without taking the lock
WorkerAcquireNoLock(t) == extraction_lock' = extraction_lock

\* a lock the worker gets only once the main thread has left its loop
WorkerAcquireStarved(t) ==
    /\ extraction_lock = None
    /\ pc \notin LoopPcs
    /\ extraction_lock' = t

\* line 132: the worker enters `with self.extraction_lock`
WorkerAcquire(t) ==
    /\ extraction_lock = None
    /\ extraction_lock' = t

AcquireLock(t) ==
    /\ ~Exited
    /\ threads[t].pc = "computed"
    /\ WorkerAcquire(t)
    /\ threads' = [threads EXCEPT ![t].pc = "locked"]
    /\ UNCHANGED <<current_colors, last_extraction_time, extraction_thread,
                   roi_for_extraction, published>>
    /\ WorkerFrame

\* line 133: self.current_colors = colors[:self.n_colors]
WriteColors(t) ==
    /\ ~Exited
    /\ threads[t].pc = "locked"
    /\ current_colors' = Take(threads[t].colors, n_colors)
    /\ threads' = [threads EXCEPT ![t].pc = "wrote"]
    /\ UNCHANGED <<last_extraction_time, extraction_thread, roi_for_extraction,
                   extraction_lock, published>>
    /\ WorkerFrame

\* line 134: self.last_extraction_time = time.time()
WriteStamp(t) ==
    /\ ~Exited
    /\ threads[t].pc = "wrote"
    /\ last_extraction_time' = now
    /\ threads' = [threads EXCEPT ![t].pc = "stamped", ![t].stamp = now]
    /\ UNCHANGED <<current_colors, extraction_thread, roi_for_extraction,
                   extraction_lock, published>>
    /\ WorkerFrame

\* end of the with block: the lock is released, the publication is complete
ReleaseLock(t) ==
    /\ ~Exited
    /\ threads[t].pc = "stamped"
    /\ extraction_lock' = None
    /\ published' = [colors |-> Take(threads[t].colors, n_colors),
                      time |-> threads[t].stamp]
    /\ threads' = [threads EXCEPT ![t].pc = "returning"]
    /\ UNCHANGED <<current_colors, last_extraction_time, extraction_thread,
                   roi_for_extraction>>
    /\ WorkerFrame

\* extract() returns: the thread is no longer alive
ThreadExit(t) ==
    /\ ~Exited
    /\ threads[t].pc = "returning"
    /\ threads' = [threads EXCEPT ![t] = [NewThread EXCEPT !.pc = "dead",
                                                          !.failed = threads[t].failed]]
    /\ UNCHANGED <<current_colors, last_extraction_time, extraction_thread,
                   roi_for_extraction, extraction_lock, published>>
    /\ WorkerFrame

\* steps of a thread that never clusters
WorkerSkip ==
    \E t \in DOMAIN threads :
        \/ ClusterSkip(t)
        \/ ThreadExit(t)

\* steps of a thread that publishes nothing
WorkerReturn ==
    \/ WorkerSkip
    \/ \E t \in DOMAIN threads : ClusterFail(t)

\* steps of a thread that clusters and publishes
WorkerPublish ==
    \E t \in DOMAIN threads :
        \/ ClusterOk(t)
        \/ AcquireLock(t)
        \/ WriteColors(t)
        \/ WriteStamp(t)
        \/ ReleaseLock(t)

Worker == WorkerReturn \/ WorkerPublish

\* ------------------------------------------------------ segment recorder
\* the recorder fields of self, as one value, so that the calls compose
Recorder ==
    [record_video |-> record_video,
     video_writer |-> video_writer,
     video_start_time |-> video_start_time,
     video_segment_count |-> video_segment_count,
     recording_active |-> recording_active,
     sinks |-> sinks]

SetRecorder(R) ==
    /\ record_video' = R.record_video
    /\ video_writer' = R.video_writer
    /\ video_start_time' = R.video_start_time
    /\ video_segment_count' = R.video_segment_count
    /\ recording_active' = R.recording_active
    /\ sinks' = R.sinks

\* cv2.VideoWriter(filename, ...): a new sink for the file of segment `seq`;
\* opens is isOpened(), writes are the frames handed to write(), in order;
\* born and closed are the frames in hand when it was constructed and when
\* it was released, by is the caller that constructed it
NewSink(seq, opens, why, fid) ==
    [seq |-> seq, opened |-> opens, released |-> FALSE, writes |-> <<>>,
     by |-> why, born |-> fid, closed |-> 0]

\* setup_video_recording (lines 372-386)
setup_video_recording(R, opens, why, fid) ==
    IF ~R.record_video
    THEN R
    ELSE [R EXCEPT !.sinks = Append(@, NewSink(R.video_segment_count, opens, why, fid)),
                   !.video_writer = Len(R.sinks) + 1,
                   !.video_start_time = now,
                   !.recording_active = TRUE]

\* finish_video_segment (lines 404-410)
finish_video_segment(R, fid) ==
    IF R.video_writer /= None
    THEN [R EXCEPT !.sinks[R.video_writer].released = TRUE,
                   !.sinks[R.video_writer].closed = fid,
                   !.video_writer = None,
                   !.recording_active = FALSE]
    ELSE R

\* lines 393-395: self.video_writer.write(frame)
WriteToSink(R, f) ==
    IF R.video_writer /= None
    THEN [R EXCEPT !.sinks[R.video_writer].writes = Append(@, f.id)]
    ELSE R

\* a budget check that lets a segment of exactly the budget go on
SegmentElapsedStrict(R) == now - R.video_start_time > video_segment_duration

\* line 399: the segment's time budget is used up
SegmentElapsed(R) == now - R.video_start_time >= video_segment_duration

\* lines 400-402: close the segment, count, open the next one
Rotate(R, f, opens) ==
    setup_video_recording(
        [finish_video_segment(R, f.id) EXCEPT !.video_segment_count = @ + 1],
        opens, "rotation", f.id)

\* a recorder that rotates first and hands the frame to the new sink
write_video_frame_rotate_first(R, f, opens) ==
    IF ~R.record_video \/ ~R.recording_active
    THEN R
    ELSE IF SegmentElapsed(R)
         THEN WriteToSink(Rotate(R, f, opens), f)
         ELSE WriteToSink(R, f)

\* a recorder that rotates instead of writing the frame
write_video_frame_skip(R, f, opens) ==
    IF ~R.record_video \/ ~R.recording_active
    THEN R
    ELSE IF SegmentElapsed(R)
         THEN Rotate(R, f, opens)
         ELSE WriteToSink(R, f)

\* a recorder without the check of lines 390-391
write_video_frame_unguarded(R, f, opens) ==
    LET written == WriteToSink(R, f)
    IN  IF SegmentElapsed(written)
        THEN Rotate(written, f, opens)
        ELSE written

\* write_video_frame (lines 388-402)
write_video_frame(R, f, opens) ==
    IF ~R.record_video \/ ~R.recording_active
    THEN R
    ELSE LET written == WriteToSink(R, f)
         IN  IF SegmentElapsed(written)
             THEN Rotate(written, f, opens)
             ELSE written

\* ------------------------------------------------------------ main loop
MainFrame ==
    /\ UNCHANGED clockVars
    /\ UNCHANGED runVars
    /\ UNCHANGED last_trigger
    /\ UNCHANGED callVars

\* run(), lines 448-461: no camera, or the camera cannot be opened
RunNoCamera ==
    /\ pc = "init"
    /\ pc' = "returned"
    /\ exit_path' = "no_camera"
    /\ UNCHANGED <<frame, nframes>>
    /\ UNCHANGED workerVars
    /\ UNCHANGED recorderVars
    /\ MainFrame

\* run(), lines 463-483: the camera is open, the recorder is set up
RunOpen ==
    /\ pc = "init"
    /\ pc' = "read"
    /\ \E opens \in BOOLEAN :
          SetRecorder(setup_video_recording(Recorder, opens, "startup", 0))
    /\ UNCHANGED <<frame, nframes, exit_path>>
    /\ UNCHANGED workerVars
    /\ MainFrame

\* lines 486-492: cap.read() delivers a frame, which is mirrored
ReadFrame ==
    /\ pc = "read"
    /\ nframes < MaxFrames
    /\ nframes' = nframes + 1
    /\ frame' = [id |-> nframes + 1, w |-> shape[1], h |-> shape[2], drawn |-> <<>>]
    /\ pc' = "cadence"
    /\ UNCHANGED <<exit_path>>
    /\ UNCHANGED workerVars
    /\ UNCHANGED recorderVars
    /\ MainFrame

\* lines 486-489: cap.read() fails, break
ReadFail ==
    /\ pc = "read"
    /\ pc' = "cleanup"
    /\ exit_path' = "read_failure"
    /\ UNCHANGED <<frame, nframes>>
    /\ UNCHANGED workerVars
    /\ UNCHANGED recorderVars
    /\ MainFrame

\* line 496: the cadence check
CadenceElapsed(t) == t - last_extraction_time > extraction_interval

\* lines 494-497: the periodic trigger
Cadence ==
    /\ pc = "cadence"
    /\ IF CadenceElapsed(now)
       THEN /\ extract_colors_async(frame)
            /\ last_trigger' = now
       ELSE /\ UNCHANGED workerVars
            /\ UNCHANGED last_trigger
    /\ pc' = "circle"
    /\ UNCHANGED <<frame, nframes, exit_path>>
    /\ UNCHANGED recorderVars
    /\ UNCHANGED clockVars
    /\ UNCHANGED runVars
    /\ UNCHANGED callVars

Draw(f, what) == [f EXCEPT !.drawn = Append(@, what)]

\* lines 499-507: draw_center_circle, or the plain circle when it raises
DrawCircle ==
    /\ pc = "circle"
    /\ frame' = Draw(frame, "circle")
    /\ pc' = "table"
    /\ UNCHANGED <<nframes, exit_path>>
    /\ UNCHANGED workerVars
    /\ UNCHANGED recorderVars
    /\ MainFrame

\* lines 502-507: draw_center_circle raised, the handler draws the plain
\* white circle instead
DrawCircleFallback ==
    /\ pc = "circle"
    /\ frame' = Draw(frame, "circle_fallback")
    /\ pc' = "table"
    /\ UNCHANGED <<nframes, exit_path>>
    /\ UNCHANGED workerVars
    /\ UNCHANGED recorderVars
    /\ MainFrame

\* a compositor that waits for the job in flight before it takes the lock
CompositorMayEnterAfterJob ==
    extraction_lock = None /\ \A t \in DOMAIN threads : ~is_alive(t)

\* line 510: `with self.extraction_lock` can be entered when nobody holds the
\* lock
CompositorMayEnter == extraction_lock = None

\* line 510: the main thread enters `with self.extraction_lock`
TableLock ==
    /\ pc = "table"
    /\ CompositorMayEnter
    /\ extraction_lock' = MainThread
    /\ pc' = "table_locked"
    /\ UNCHANGED <<frame, nframes, exit_path>>
    /\ UNCHANGED <<current_colors, last_extraction_time, extraction_thread,
                   roi_for_extraction, threads, published>>
    /\ UNCHANGED recorderVars
    /\ MainFrame

\* lines 511-515: the palette is read and, when not empty, drawn
TableDraw ==
    /\ pc = "table_locked"
    /\ frame' = IF current_colors /= <<>> THEN Draw(frame, "table") ELSE frame
    /\ pc' = "table_drawn"
    /\ UNCHANGED <<nframes, exit_path>>
    /\ UNCHANGED workerVars
    /\ UNCHANGED recorderVars
    /\ MainFrame

\* a handler that leaves the `with` block without releasing the lock
TableDrawRaisesLeaks ==
    /\ pc = "table_locked"
    /\ current_colors /= <<>>
    /\ frame' = Draw(frame, "table_partial")
    /\ pc' = "fps"
    /\ UNCHANGED <<nframes, exit_path>>
    /\ UNCHANGED workerVars
    /\ UNCHANGED recorderVars
    /\ MainFrame

\* lines 512-515: draw_color_table raised; it draws on the frame in place, so
\* what it drew before the error stays; the handler prints and goes on
TableDrawRaises ==
    /\ pc = "table_locked"
    /\ current_colors /= <<>>
    /\ frame' = Draw(frame, "table_partial")
    /\ pc' = "table_drawn"
    /\ UNCHANGED <<nframes, exit_path>>
    /\ UNCHANGED workerVars
    /\ UNCHANGED recorderVars
    /\ MainFrame

\* end of the with block of line 510
TableUnlock ==
    /\ pc = "table_drawn"
    /\ extraction_lock' = None
    /\ pc' = "fps"
    /\ UNCHANGED <<frame, nframes, exit_path>>
    /\ UNCHANGED <<current_colors, last_extraction_time, extraction_thread,
                   roi_for_extraction, threads, published>>
    /\ UNCHANGED recorderVars
    /\ MainFrame

\* a loop that hands the frame to the recorder right after the FPS text
DrawFpsThenWrite ==
    /\ pc = "fps"
    /\ frame' = Draw(frame, "fps")
    /\ pc' = "write"
    /\ UNCHANGED <<nframes, exit_path>>
    /\ UNCHANGED workerVars
    /\ UNCHANGED recorderVars
    /\ MainFrame

\* lines 517-524: draw_fps
DrawFps ==
    /\ pc = "fps"
    /\ frame' = Draw(frame, "fps")
    /\ pc' = "indicator"
    /\ UNCHANGED <<nframes, exit_path>>
    /\ UNCHANGED workerVars
    /\ UNCHANGED recorderVars
    /\ MainFrame

\* lines 418-420: the remaining time draw_recording_indicator shows
remaining_time(R) == video_segment_duration - (now - R.video_start_time)

\* lines 526-527, 412-431: draw_recording_indicator
DrawIndicator ==
    /\ pc = "indicator"
    /\ frame' = IF record_video /\ recording_active THEN Draw(frame, "rec") ELSE frame
    /\ pc' = "footer"
    /\ UNCHANGED <<nframes, exit_path>>
    /\ UNCHANGED workerVars
    /\ UNCHANGED recorderVars
    /\ MainFrame

\* lines 529-530: draw_bottom_branding
DrawFooter ==
    /\ pc = "footer"
    /\ frame' = Draw(frame, "footer")
    /\ pc' = "write"
    /\ UNCHANGED <<nframes, exit_path>>
    /\ UNCHANGED workerVars
    /\ UNCHANGED recorderVars
    /\ MainFrame

\* lines 532-533: write_video_frame(frame)
WriteVideo ==
    /\ pc = "write"
    /\ \E opens \in BOOLEAN :
          SetRecorder(write_video_frame(Recorder, frame, opens))
    /\ pc' = "show"
    /\ UNCHANGED <<frame, nframes, exit_path>>
    /\ UNCHANGED workerVars
    /\ MainFrame

\* lines 535-536: cv2.imshow
Show ==
    /\ pc = "show"
    /\ pc' = "key"
    /\ UNCHANGED <<frame, nframes, exit_path>>
    /\ UNCHANGED workerVars
    /\ UNCHANGED recorderVars
    /\ MainFrame

\* lines 539-541: no key, or a key that is not bound
KeyNone ==
    /\ pc = "key"
    /\ pc' = "read"
    /\ UNCHANGED <<frame, nframes, exit_path>>
    /\ UNCHANGED workerVars
    /\ UNCHANGED recorderVars
    /\ MainFrame

\* lines 540-541: 'q', 'x' or ESC, break
KeyQuit ==
    /\ pc = "key"
    /\ pc' = "cleanup"
    /\ exit_path' = "quit"
    /\ UNCHANGED <<frame, nframes>>
    /\ UNCHANGED workerVars
    /\ UNCHANGED recorderVars
    /\ MainFrame

\* line 542: 'c' was pressed
KeyC ==
    /\ pc = "key"
    /\ pc' = "forced"
    /\ UNCHANGED <<frame, nframes, exit_path>>
    /\ UNCHANGED workerVars
    /\ UNCHANGED recorderVars
    /\ MainFrame

\* line 545: 'r' was pressed
KeyR ==
    /\ pc = "key"
    /\ pc' = "toggle"
    /\ UNCHANGED <<frame, nframes, exit_path>>
    /\ UNCHANGED workerVars
    /\ UNCHANGED recorderVars
    /\ MainFrame

\* a forced trigger that waits for the cadence like the periodic one
forced_trigger_cadenced(f) ==
    IF CadenceElapsed(now) THEN extract_colors_async(f) ELSE UNCHANGED workerVars

\* line 544: the call made for the key 'c'
forced_trigger(f) == extract_colors_async(f)

\* lines 543-544: the forced trigger
KeyCapture ==
    /\ pc = "forced"
    /\ forced_trigger(frame)
    /\ pc' = "read"
    /\ UNCHANGED <<frame, nframes, exit_path>>
    /\ UNCHANGED recorderVars
    /\ MainFrame

\* a toggle that forgets to close the segment when recording is switched off
toggle_recording_leak(R, opens, fid) ==
    LET toggled == [R EXCEPT !.record_video = ~R.record_video]
    IN  IF toggled.record_video
        THEN setup_video_recording(toggled, opens, "toggle", fid)
        ELSE toggled

\* lines 546-553: toggle recording
toggle_recording(R, opens, fid) ==
    LET toggled == [R EXCEPT !.record_video = ~R.record_video]
    IN  IF toggled.record_video
        THEN setup_video_recording(toggled, opens, "toggle", fid)
        ELSE finish_video_segment(toggled, fid)

KeyRecord ==
    /\ pc = "toggle"
    /\ \E opens \in BOOLEAN :
          SetRecorder(toggle_recording(Recorder, opens, frame.id))
    /\ pc' = "read"
    /\ UNCHANGED <<frame, nframes, exit_path>>
    /\ UNCHANGED workerVars
    /\ MainFrame

\* lines 555-557: the clean-up after the loop
cleanup_recording(R, fid) ==
    IF R.recording_active THEN finish_video_segment(R, fid) ELSE R

\* lines 555-560, then run() and main() return
Cleanup ==
    /\ pc = "cleanup"
    /\ SetRecorder(cleanup_recording(Recorder, frame.id))
    /\ pc' = "returned"
    /\ UNCHANGED <<frame, nframes, exit_path>>
    /\ UNCHANGED workerVars
    /\ MainFrame

\* the exit code of the process once run() is over, by the way it ended
\* (lines 575-589): run() returns None both after the loop and when no camera
\* is found (lines 449-461), both handlers of main() only print, and nothing
\* calls sys.exit, so main() returns and the interpreter exits with 0
exit_code(path) == 0

\* what an exception leaving run() does to the recorder before main() handles
\* it (lines 581-585): run() has no finally clause
unwind_recording(R) == R

\* KeyboardInterrupt, or an exception no handler of run() catches, raised
\* inside the loop: it leaves run() and is handled in main() (lines 582-585);
\* a with block that is left releases its lock
Interrupt(kind) ==
    /\ pc \in LoopPcs \cup {"cleanup"}
    /\ pc' = "aborted"
    /\ exit_path' = kind
    /\ extraction_lock' = IF extraction_lock = MainThread THEN None ELSE extraction_lock
    /\ SetRecorder(unwind_recording(Recorder))
    /\ UNCHANGED <<frame, nframes>>
    /\ UNCHANGED <<current_colors, last_extraction_time, extraction_thread,
                   roi_for_extraction, threads, published>>
    /\ MainFrame

\* the drawing calls of lines 524, 527 and 530, by the position of the main
\* thread: none of them is inside a try block
Unguarded ==
    [fps |-> "draw_fps",
     indicator |-> "draw_recording_indicator",
     footer |-> "draw_bottom_branding"]

\* lines 524, 527, 530: the drawing call raises; the exception leaves run()
\* and is handled in main() (lines 584-585); draw_recording_indicator draws,
\* and so can raise, only while recording (line 414)
DrawRaises(step) ==
    /\ pc = step
    /\ step = "indicator" => record_video /\ recording_active
    /\ pc' = "aborted"
    /\ exit_path' = Unguarded[step]
    /\ SetRecorder(unwind_recording(Recorder))
    /\ UNCHANGED <<frame, nframes>>
    /\ UNCHANGED workerVars
    /\ MainFrame

\* a drawing step raises
DrawFault ==
    \/ DrawCircleFallback
    \/ TableDrawRaises
    \/ \E step \in DOMAIN Unguarded : DrawRaises(step)

Loop ==
    \/ RunNoCamera
    \/ RunOpen
    \/ ReadFrame
    \/ ReadFail
    \/ Cadence
    \/ DrawCircle
    \/ TableLock
    \/ TableDraw
    \/ TableUnlock
    \/ DrawFps
    \/ DrawIndicator
    \/ DrawFooter
    \/ WriteVideo
    \/ Show
    \/ KeyNone
    \/ KeyQuit
    \/ KeyC
    \/ KeyCapture
    \/ Cleanup
    \/ Interrupt("KeyboardInterrupt")
    \/ Interrupt("Exception")

Main == Loop \/ KeyR \/ KeyRecord

\* the whole program
Next == Tick \/ Worker \/ Main \/ DrawFault

Spec == Init /\ [][Next]_vars

\* The recorder fields are read and written by the main thread only, and no
\* step of the recorder reads the palette, so the two halves are explored
\* separately, each as the whole program under a restriction of its inputs.

\* the program started without --record, the user never presses 'r', no
\* drawing call raises
InitWorker == Init /\ record_video = FALSE
NextWorker == Tick \/ Worker \/ Loop
SpecWorker == InitWorker /\ [][NextWorker]_vars

\* the same program started with --colors 0 or 1 on a camera of one-pixel
\* frames, under the scheduling
\* the code relies on: a thread that can run does run, a thread waiting at
\* `with self.extraction_lock` (line 132) gets the lock when it is free again
\* and again, and the main thread leaves its own `with` block (lines 510-515)
\* once it has entered it. Nothing makes the main thread read another frame
\* or quit.
LockSection == TableDraw \/ TableDrawRaises \/ TableUnlock
InitWorkerFair == InitWorker /\ shape = <<1, 1>> /\ n_colors \in {0, 1}
SpecWorkerFair ==
    InitWorkerFair /\ [][NextWorker]_vars /\ SF_vars(Worker) /\ WF_vars(LockSection)

\* the same while the clock stands still, and draw_color_table may raise
\* inside the main thread's `with` block (lines 512-515)
NextLock == Worker \/ Loop \/ TableDrawRaises
SpecLock ==
    InitWorkerFair /\ [][NextLock]_vars /\ SF_vars(Worker) /\ WF_vars(LockSection)

\* the wall clock advances once more than MaxTicks times
TickLate ==
    /\ ~Exited
    /\ ticks = MaxTicks
    /\ \E d \in TickSteps : now' = now + d
    /\ ticks' = ticks + 1
    /\ UNCHANGED <<pc, n_colors, shape, frame, nframes, exit_path, last_trigger>>
    /\ UNCHANGED workerVars
    /\ UNCHANGED recorderVars
    /\ UNCHANGED callVars

\* the program started with --colors 0 on a camera of one-pixel frames: every
\* extraction thread returns without publishing (k < 1), so WorkerPublish has
\* no enabled step; no drawing call raises
InitRecorder == Init /\ n_colors = 0 /\ shape = <<1, 1>>
NextRecorder == Tick \/ WorkerSkip \/ Main
SpecRecorder == InitRecorder /\ [][NextRecorder]_vars

\* the same program started with --record, the clock advancing once more
InitIndicator == InitRecorder /\ record_video = TRUE
NextIndicator == NextRecorder \/ TickLate
SpecIndicator == InitIndicator /\ [][NextIndicator]_vars

\* the program started with --record on a camera of one-pixel frames, the
\* user never presses 'r'; drawing calls may raise
InitCompositor == Init /\ shape = <<1, 1>> /\ record_video = TRUE
NextCompositor == Tick \/ Worker \/ Loop \/ DrawFault
SpecCompositor == InitCompositor /\ [][NextCompositor]_vars

\* the clustering engine on its own: the program started without --record
\* with any n_colors of -1..MaxK on a camera of one-row frames of 0..MaxPixels
\* pixels, followed up to the end of the job of its first frame
InitEngine ==
    /\ Start((-1)..MaxK, {<<w, 1>> : w \in 0..MaxPixels})
    /\ NoCall
    /\ record_video = FALSE
NextEngine == Worker \/ RunOpen \/ ReadFrame \/ Cadence
SpecEngine == InitEngine /\ [][NextEngine]_vars

\* the ROI sampler on its own: the main thread alone (no thread is ever
\* scheduled, the clock stands still) on cameras whose frame sides are
\* 0..MaxSide, the sides around twice the radius, or those of a 1280 x 720
\* camera
Sides ==
    (0..MaxSide) \cup {2 * circle_radius - 1, 2 * circle_radius, 2 * circle_radius + 1,
                        720, 1280}
InitSampler ==
    /\ Start(0..MaxColors, Sides \X Sides)
    /\ NoCall
    /\ record_video = FALSE
NextSampler == Loop
SpecSampler == InitSampler /\ [][NextSampler]_vars

\* a helper called on its own: the constructed object, nothing running
Idle == Start({0}, {<<0, 0>>}) /\ record_video = FALSE /\ ret = <<>>

HelperFrame ==
    /\ UNCHANGED <<pc, n_colors, shape, frame, nframes, exit_path, last_trigger, arg>>
    /\ UNCHANGED clockVars
    /\ UNCHANGED workerVars
    /\ UNCHANGED recorderVars

\* the contrast function on its own: get_xor_color(background) for any first
\* channel and the other two channels taken from BackgroundLevels
BackgroundLevels == {0, 10, 77, 78, 127, 128, 130, 177, 178, 200, 255}
Backgrounds == (0..255) \X BackgroundLevels \X BackgroundLevels
CallXorColor ==
    /\ ret = <<>>
    /\ ret' = <<get_xor_color(arg[1])>>
    /\ HelperFrame
InitContrast == Idle /\ arg \in {<<bg>> : bg \in Backgrounds}
NextContrast == CallXorColor
SpecContrast == InitContrast /\ [][NextContrast]_vars

\* the two hex conversions on their own: rgb_to_hex(hex_to_rgb(h)) for h with
\* or without the leading '#', the first channel over every digit of either
\* case, and for some strings hex_to_rgb rejects
FewHexChars == {"0", "a", "F"}
SixDigits ==
    {<<c1, c2, c3, c4, c5, c6>> : c1 \in HexChars, c2 \in HexChars,
                                  c3 \in FewHexChars, c4 \in FewHexChars,
                                  c5 \in FewHexChars, c6 \in FewHexChars}
Rejected ==
    {<<>>, <<"#">>, <<"#", "f", "f">>, <<"F", "F", "0", "0", "a">>,
     <<"#", "g", "g", "0", "0", "0", "0">>, <<"z", "F", "0", "0", "a", "a">>}
HexStrings ==
    SixDigits \cup {<<"#">> \o h : h \in SixDigits} \cup Rejected
CallHexRoundTrip ==
    /\ ret = <<>>
    /\ ret' = <<rgb_to_hex(hex_to_rgb(arg[1]))>>
    /\ HelperFrame
InitHex == Idle /\ arg \in {<<h>> : h \in HexStrings}
NextHex == CallHexRoundTrip
SpecHex == InitHex /\ [][NextHex]_vars

\* the palette table on its own: draw_color_table(colors) for palettes of one
\* or two entries, well-formed and not
EntryItems ==
    {[key |-> "hex", val |-> StrValue(<<"#", "f", "f", "0", "0", "0", "0">>)],
     [key |-> "hex", val |-> NumValue(5)],
     [key |-> "rgb", val |-> TupleValue(<<255, 0, 0>>)],
     [key |-> "rgb", val |-> TupleValue(<<1, 2>>)],
     [key |-> "rgb", val |-> StrValue(<<"#", "0", "0", "f", "f", "0", "0">>)],
     [key |-> "percentage", val |-> NumValue(50)],
     [key |-> "percentage", val |-> StrValue(<<"5", "0">>)],
     [key |-> "color", val |-> TupleValue(<<0, 0, 255>>)]}
Dicts ==
    {[type |-> "dict", items |-> items] :
        items \in {it \in UNION {[1..n -> EntryItems] : n \in 0..3} :
                      \A i, j \in DOMAIN it : i /= j => it[i].key /= it[j].key}}
Entries ==
    Dicts \cup {[type |-> "tuple", items |-> <<[key |-> "", val |-> TupleValue(t)]>>] :
                    t \in {<<0, 128, 255>>, <<1, 2>>}}
          \cup {[type |-> "other", items |-> <<>>]}
CallDrawColorTable ==
    /\ ret = <<>>
    /\ ret' = <<draw_color_table(arg[1])>>
    /\ HelperFrame
InitTable ==
    /\ Idle
    /\ arg \in {<<colors>> : colors \in UNION {[1..n -> Entries] : n \in 1..2}}
NextTable == CallDrawColorTable
SpecTable == InitTable /\ [][NextTable]_vars

\* the entry of one cluster on its own: palette_entry(center) for centres
\* that are means of one to three pixels, the blue channel over every such
\* mean, the other two over a few
FewMeans == {<<0, 1>>, <<255, 1>>, <<31, 2>>, <<32, 3>>}
AllMeans == {x \in (0..(3 * 255)) \X (1..3) : x[1] <= 255 * x[2]}
Centers == AllMeans \X FewMeans \X FewMeans
CallPaletteEntry ==
    /\ ret = <<>>
    /\ ret' = <<palette_entry(arg[1])>>
    /\ HelperFrame
InitCenters == Idle /\ arg \in {<<c>> : c \in Centers}
NextCenters == CallPaletteEntry
SpecCenters == InitCenters /\ [][NextCenters]_vars

\* =====================================================================
\* Properties
\* =====================================================================
AliveThreads == {t \in DOMAIN threads : is_alive(t)}

\* a step of the main thread
MainStep == pc' /= pc

\* a call of extract_colors_async: the cadence trigger of line 497 or the
\* forced trigger of line 544
TriggerStep ==
    \/ pc = "cadence" /\ pc' = "circle" /\ CadenceElapsed(now)
    \/ pc = "forced" /\ pc' = "read"

PaletteState == <<current_colors, last_extraction_time>>

\* C1: in every interleaving of main-loop steps and worker steps at most one
\* extraction thread is alive, and a trigger issued while one is alive starts
\* no thread and leaves the pending ROI snapshot and the palette state alone.
C1_SingleFlight ==
    [][ /\ Cardinality(AliveThreads') <= 1
        /\ (TriggerStep /\ AliveThreads /= {}) =>
               /\ threads' = threads
               /\ extraction_thread' = extraction_thread
               /\ roi_for_extraction' = roi_for_extraction
               /\ PaletteState' = PaletteState ]_vars

\* the cadence trigger of this frame was due (nothing was ever published) and
\* was dropped: the thread alive still holds the snapshot of an earlier frame
C1_TriggerDropped ==
    /\ pc = "circle"
    /\ last_extraction_time = 0
    /\ AliveThreads /= {}
    /\ roi_for_extraction /= <<>>
    /\ roi_for_extraction[1].src < frame.id

\* C2: whenever no thread is alive (initially, or after the previous job
\* completed or failed), a trigger on a frame with a non-empty ROI starts
\* exactly one fresh thread on a fresh snapshot of that frame.
C2_TriggerStartsJob ==
    [][ (/\ TriggerStep
         /\ AliveThreads = {}
         /\ RoiSize(extract_roi_from_circle(frame)) /= 0) =>
            /\ Cardinality(AliveThreads') = 1
            /\ extraction_thread' \in AliveThreads'
            /\ threads'[extraction_thread'].pc = "started"
            /\ roi_for_extraction' = <<extract_roi_from_circle(frame)>> ]_vars

\* a palette was published by an earlier job, and a fresh job was started on
\* the frame in hand
C2_FreshJobAfterCompletion ==
    /\ current_colors /= <<>>
    /\ roi_for_extraction /= <<>>
    /\ roi_for_extraction[1].src = frame.id
    /\ \E t \in DOMAIN threads : threads[t].pc = "started"

\* C3: when the clustering raises inside a thread, the step changes neither
\* the palette state nor the lock nor the position of the main thread; the
\* thread goes on to return, its next step ends it, so the single-flight
\* guard clears.
C3_FailureContained ==
    /\ [][ \A t \in DOMAIN threads :
             /\ (t \in DOMAIN threads' /\ ~threads[t].failed /\ threads'[t].failed) =>
                    /\ threads'[t].pc = "returning"
                    /\ PaletteState' = PaletteState
                    /\ published' = published
                    /\ extraction_lock' = extraction_lock
                    /\ pc' = pc
             /\ (/\ threads[t].failed
                 /\ threads[t].pc = "returning"
                 /\ t \in DOMAIN threads'
                 /\ threads'[t] /= threads[t]) => ~is_alive(t)' ]_vars
    /\ [](\A t \in DOMAIN threads :
             threads[t].failed => /\ threads[t].pc \in {"returning", "dead"}
                                  /\ extraction_lock /= t)

\* a job was started after the clustering of an earlier one raised
C3_JobAfterFailure ==
    \E t \in DOMAIN threads : threads[t].retry /\ threads[t].pc = "started"

RECURSIVE SumCounts(_)
SumCounts(s) == IF s = <<>> THEN 0 ELSE Head(s).count + SumCounts(Tail(s))

SortedDesc(s) == \A i \in 1..(Len(s) - 1) : s[i].count >= s[i + 1].count

\* what the compositor finds inside its with block: the pair of the last
\* finished publication (the empty palette before the first), sorted, with
\* every pixel of the sample accounted for
ReaderView ==
    /\ [colors |-> current_colors, time |-> last_extraction_time] = published
    /\ SortedDesc(current_colors)
    /\ current_colors /= <<>> => SumCounts(current_colors) = current_colors[1].total

\* C4: the palette the compositor reads under the lock is the empty initial
\* palette or the complete sorted output of one finished job, together with
\* that job's timestamp; both fields change only while a worker holds the
\* lock, within one critical section.
C4_AtomicPalette ==
    /\ [](pc \in {"table_locked", "table_drawn"} => ReaderView)
    /\ [][ PaletteState' /= PaletteState =>
             /\ extraction_lock \in DOMAIN threads
             /\ extraction_lock' = extraction_lock ]_vars

\* the compositor holds the lock on a published palette while the next job
\* waits for the lock with its result
C4_ReaderWhileWorkerWaits ==
    /\ pc = "table_locked"
    /\ current_colors /= <<>>
    /\ \E t \in DOMAIN threads : threads[t].pc = "computed"

\* ---------------------------------------------------------------------
\* the recorder
ActiveSinks == {h \in DOMAIN sinks : ~sinks[h].released}

RotationSinks == {h \in DOMAIN sinks : sinks[h].by = "rotation"}

C6_ExactlyOneRotation ==
    [][ /\ (pc = "write" /\ pc' = "show" /\ record_video /\ recording_active) =>
              IF now - video_start_time >= video_segment_duration
              THEN /\ video_segment_count' = video_segment_count + 1
                   /\ Len(sinks') = Len(sinks) + 1
                   /\ sinks'[video_writer].released
                   /\ video_writer' = Len(sinks')
                   /\ ~sinks'[video_writer'].released
                   /\ sinks'[video_writer'].seq = video_segment_count + 1
                   /\ video_start_time' = now
                   /\ record_video' /\ recording_active'
              ELSE /\ video_segment_count' = video_segment_count
                   /\ Len(sinks') = Len(sinks)
                   /\ video_writer' = video_writer
                   /\ ~sinks'[video_writer].released
                   /\ video_start_time' = video_start_time
        /\ \A h \in DOMAIN sinks :
              sinks[h].released => (h \in DOMAIN sinks' /\ sinks'[h] = sinks[h]) ]_vars

\* the write of the frame in hand has just rotated to the second segment
C6_JustRotated ==
    /\ pc = "show"
    /\ video_segment_count = 2
    /\ video_writer \in RotationSinks
    /\ sinks[video_writer].born = frame.id
    /\ video_start_time = now

\* positions of the main thread at which write_video_frame has run for the
\* frame in hand
FrameWritten ==
    pc \in {"show", "key", "forced", "toggle", "read", "cleanup", "returned"}

\* the frames a sink must hold: those after the one in hand when it was
\* opened, up to the one in hand when it was closed (or up to now)
SinkHolds(h, last) ==
    /\ Len(sinks[h].writes) = last - sinks[h].born
    /\ \A i \in DOMAIN sinks[h].writes : sinks[h].writes[i] = sinks[h].born + i

\* C7: every frame composited while recording is enabled is handed to
\* exactly one sink exactly once, in iteration order: each sink holds the
\* consecutive frames of the iterations it was open for, and no rotation
\* loses or repeats one.
C7_EveryFrameOnce ==
    /\ \A h \in DOMAIN sinks :
          IF sinks[h].released
          THEN SinkHolds(h, sinks[h].closed)
          ELSE IF pc = "aborted"
               THEN SinkHolds(h, frame.id) \/ SinkHolds(h, frame.id - 1)
               ELSE SinkHolds(h, IF FrameWritten THEN frame.id ELSE frame.id - 1)
    /\ \A h \in DOMAIN sinks :
          h > 1 => /\ sinks[h - 1].released
                   /\ sinks[h - 1].closed <= sinks[h].born

\* two frames were recorded, one on each side of a rotation
C7_TwoFramesTwoSinks ==
    /\ pc = "read"
    /\ Len(sinks) = 2
    /\ sinks[1].writes = <<1>>
    /\ sinks[2].by = "rotation"
    /\ sinks[2].writes = <<2>>

\* C8: while the loop runs, exactly one segment (an open sink with its
\* start_time) is active when recording is enabled and none when it is
\* disabled.
C8_OneSegmentWhenEnabled ==
    pc \in LoopPcs =>
        IF record_video
        THEN /\ ActiveSinks = {video_writer}
             /\ recording_active
             /\ video_start_time >= 0
        ELSE /\ ActiveSinks = {}
             /\ video_writer = None
             /\ ~recording_active

\* recording was switched off after a segment had been opened
C8_DisabledAfterToggle ==
    /\ pc = "read"
    /\ ~record_video
    /\ sinks /= <<>>
    /\ ActiveSinks = {}

\* C9 (as stated): on every exit path a segment that is active is closed
\* before the process exits.
C9_ClosedOnEveryExit == Exited => ActiveSinks = {}

\* C10 (as stated): the recorder is never left recording into a sink that
\* could not be opened.
C10_NoRecordingIntoFailedSink ==
    \A h \in DOMAIN sinks : ~sinks[h].opened => video_writer /= h

\* ---------------------------------------------------------------------
\* the compositor
\* the position of the main thread after each drawing step
AfterDrawing ==
    [circle |-> "table", table_locked |-> "table_drawn", fps |-> "indicator",
     indicator |-> "footer", footer |-> "write"]

\* the drawing step at the position of the main thread raises
DrawingStepRaises ==
    /\ pc \in DOMAIN AfterDrawing
    /\ \/ pc' = "aborted" /\ exit_path' \in Range(<<"draw_fps", "draw_recording_indicator",
                                                    "draw_bottom_branding">>)
       \/ /\ frame'.drawn /= frame.drawn
          /\ Last(frame'.drawn) \in {"circle_fallback", "table_partial"}

\* C11 (as stated): when one of the five drawing steps raises, the main
\* thread goes on to the next step of the same iteration, so the frame is
\* still recorded and displayed and the loop continues.
C11_DrawingFailureContained ==
    [][ DrawingStepRaises => pc' = AfterDrawing[pc] ]_vars

\* ---------------------------------------------------------------------
\* the cadence
\* C12 (as stated): a cadence-driven call of extract_colors_async is made
\* only when at least extraction_interval has passed since the previous one,
\* whatever became of the job that call started.
C12_MinimumTriggerInterval ==
    [][ (pc = "cadence" /\ pc' = "circle" /\ CadenceElapsed(now) /\ last_trigger >= 0) =>
            now - last_trigger >= extraction_interval ]_vars

\* the frame in hand was taken by the forced trigger: it already carries the
\* overlays of its iteration
ForcedSnapshot ==
    /\ roi_for_extraction /= <<>>
    /\ roi_for_extraction[1].src = frame.id
    /\ roi_for_extraction[1].overlays /= <<>>

\* C13: the call made for the key 'c' does not look at the time since the
\* last extraction: with no thread alive and a non-empty ROI it starts a job
\* on the frame in hand, also when the cadence has not elapsed; with a thread
\* alive it starts nothing and changes nothing.
C13_ForcedTrigger ==
    [][ (pc = "forced" /\ pc' = "read") =>
           IF AliveThreads /= {} \/ RoiSize(extract_roi_from_circle(frame)) = 0
           THEN UNCHANGED workerVars
           ELSE /\ Cardinality(AliveThreads') = 1
                /\ threads'[extraction_thread'].pc = "started"
                /\ roi_for_extraction' = <<extract_roi_from_circle(frame)>> ]_vars

\* a forced trigger started a job although the cadence had not elapsed
C13_ForcedBeforeCadence ==
    /\ pc = "read"
    /\ ~CadenceElapsed(now)
    /\ ForcedSnapshot
    /\ \E t \in DOMAIN threads : threads[t].pc = "started"

\* ---------------------------------------------------------------------
\* the lock
\* C14 (as stated): nothing is drawn while the main thread holds the lock,
\* and a worker holds the lock only while it replaces the palette, never
\* while it clusters.
C14_LockHeldOnlyForCopy ==
    [][ /\ frame'.drawn /= frame.drawn => extraction_lock /= MainThread
        /\ \A t \in DOMAIN threads :
              (t \in DOMAIN threads' /\ threads[t].pc = "started"
                                     /\ threads'[t].pc /= "started") =>
                  extraction_lock /= t ]_vars

\* the steps of one iteration, from the cadence check to the display
Composite ==
    \/ Cadence
    \/ DrawCircle
    \/ TableLock
    \/ TableDraw
    \/ TableUnlock
    \/ DrawFps
    \/ DrawIndicator
    \/ DrawFooter
    \/ WriteVideo
    \/ Show

Clustering == \E t \in DOMAIN threads : threads[t].pc = "started"

\* C15: while a job is clustering, the main thread is never held up: at
\* every position between the cadence check and the display its next step
\* can be taken, and the palette it draws is the last published one.
C15_MainNeverWaits ==
    (Clustering /\ pc \in {"cadence", "circle", "table", "table_locked", "table_drawn",
                            "fps", "indicator", "footer", "write", "show"}) =>
        /\ ENABLED Composite
        /\ pc = "table_locked" =>
               [colors |-> current_colors, time |-> last_extraction_time] = published

\* the display of a frame composited with a published palette while the
\* next job is still clustering
C15_StalePaletteShown ==
    /\ pc = "key"
    /\ Clustering
    /\ "table" \in Range(frame.drawn)

\* ---------------------------------------------------------------------
\* ordering of publications
\* C16: the palette is replaced only by the thread started last, which is
\* the only one alive; the ROI snapshot is not replaced while a thread is
\* alive, so the colours a thread publishes are those of the snapshot taken
\* for it; outside a worker's critical section the palette state is the
\* result of the last job that completed its publication.
C16_CompletionOrder ==
    /\ [][ /\ PaletteState' /= PaletteState => extraction_lock = extraction_thread
           /\ AliveThreads /= {} => roi_for_extraction' = roi_for_extraction ]_vars
    /\ [](\A t \in DOMAIN threads :
             /\ is_alive(t) => t = extraction_thread
             /\ threads[t].input /= <<>> =>
                    /\ threads[t].input = roi_for_extraction
                    /\ threads[t].colors /= <<>>
                    /\ threads[t].colors[1].total = RoiPixels(threads[t].input[1]))
    /\ [](extraction_lock \notin DOMAIN threads =>
             [colors |-> current_colors, time |-> last_extraction_time] = published)

\* the palette of an earlier job is in place while the next job, its
\* clustering done, holds the lock to replace it
C16_SecondJobPublishing ==
    /\ current_colors /= <<>>
    /\ \E t \in DOMAIN threads : threads[t].pc = "locked" /\ extraction_lock = t

\* ---------------------------------------------------------------------
\* the recorder while disabled
\* C17: write_video_frame called while record_video is off changes no field
\* of the recorder (no sink is opened or written, the counter, start_time
\* and flags stay) and returns normally to the display step.
C17_DisabledWriteIsNoOp ==
    [][ (pc = "write" /\ MainStep /\ ~record_video /\ exit_path' = exit_path) =>
            /\ pc' = "show"
            /\ UNCHANGED recorderVars ]_vars

\* a frame was fed to the recorder after recording had been switched off,
\* the clock having passed the budget of the closed segment
C17_FedWhileDisabled ==
    /\ pc = "show"
    /\ ~record_video
    /\ sinks /= <<>>
    /\ now - video_start_time >= video_segment_duration
    /\ \A h \in DOMAIN sinks : frame.id \notin Range(sinks[h].writes)

\* ---------------------------------------------------------------------
\* the clustering engine
\* the palettes of the engine: the published one and those of the threads
Palettes == {current_colors} \cup {threads[t].colors : t \in DOMAIN threads}

\* the sample the palettes were computed from
SamplePixels == IF roi_for_extraction = <<>> THEN 0 ELSE RoiPixels(roi_for_extraction[1])

\* C18: percentage is count / total * 100 with total the number of pixels
\* of the sample, so for every palette of the engine each percentage is in
\* [0, 100] and the percentages sum to at most 100: each count is in
\* 0..total and the counts sum to at most total.
C18_PercentagesBounded ==
    \A p \in Palettes :
        /\ \A i \in DOMAIN p :
              /\ p[i].total = SamplePixels
              /\ 0 <= p[i].count * 100
              /\ p[i].count * 100 <= 100 * p[i].total
        /\ SumCounts(p) * 100 <= 100 * SamplePixels

\* a palette of several entries was published
C18_SeveralEntriesPublished ==
    /\ Len(current_colors) >= 2
    /\ SumCounts(current_colors) = SamplePixels

\* C19: every palette of the engine is ordered by percentage descending,
\* and entries of equal percentage are in ascending order of cluster label.
C19_SortedStable ==
    \A p \in Palettes :
        \A i, j \in DOMAIN p :
            i < j => \/ p[i].count > p[j].count
                     \/ p[i].count = p[j].count /\ p[i].label < p[j].label

\* a palette was published in which a tie follows a larger entry that has
\* the largest label
C19_TieAfterLargest ==
    /\ Len(current_colors) = 3
    /\ current_colors[1].label = 2
    /\ current_colors[2].count = current_colors[3].count

\* C20: a palette never has more than min(n_colors, pixels of the sample)
\* entries; when that number is below 1 the thread returns without
\* clustering: it publishes nothing and no exception is raised.
C20_EffectiveClusterCount ==
    /\ \A p \in Palettes : Len(p) <= Max(0, Min(n_colors, SamplePixels))
    /\ \A t \in DOMAIN threads :
          Min(n_colors, SamplePixels) < 1 =>
              /\ ~threads[t].failed
              /\ threads[t].pc \in {"started", "returning", "dead"}
              /\ PaletteState = <<(<<>>), 0>>

\* a palette was published whose size is the size of the sample, n_colors
\* being larger
C20_ClampedBySample ==
    /\ n_colors > SamplePixels
    /\ SamplePixels >= 2
    /\ Len(current_colors) = SamplePixels

\* ---------------------------------------------------------------------
\* the ROI sampler
RoiInside(roi, f) ==
    /\ 0 <= roi.x1 /\ roi.x1 <= roi.x2 /\ roi.x2 <= f.w
    /\ 0 <= roi.y1 /\ roi.y1 <= roi.y2 /\ roi.y2 <= f.h
    /\ roi.x2 - roi.x1 <= 2 * circle_radius
    /\ roi.y2 - roi.y1 <= 2 * circle_radius

\* C21: for every frame size the rectangle of the sampler lies inside the
\* frame, 0 <= x1 <= x2 <= width and 0 <= y1 <= y2 <= height, and is at most
\* 2 x radius wide and high; so does the snapshot kept for the job.
C21_RoiWithinFrame ==
    /\ RoiInside(extract_roi_from_circle(frame), frame)
    /\ roi_for_extraction /= <<>> => RoiInside(roi_for_extraction[1], frame)

\* a snapshot was taken of a frame narrower than 2 x radius and higher than
\* 2 x radius: clipped to the frame in x, the full square in y
C21_ClippedInOneDirection ==
    /\ roi_for_extraction /= <<>>
    /\ frame.w < 2 * circle_radius
    /\ frame.h > 2 * circle_radius
    /\ roi_for_extraction[1].x1 = 0
    /\ roi_for_extraction[1].x2 = frame.w
    /\ roi_for_extraction[1].y1 > 0
    /\ roi_for_extraction[1].y2 < frame.h

\* C22: a trigger on a frame whose clamped ROI has zero area starts no
\* thread, leaves the snapshot and the palette state as they were, and the
\* main thread goes on with the loop.
C22_EmptyRoiSkipped ==
    [][ (TriggerStep /\ RoiSize(extract_roi_from_circle(frame)) = 0) =>
            /\ UNCHANGED workerVars
            /\ pc' \in LoopPcs ]_vars

\* the cadence trigger was called on a frame without pixels and nothing
\* was started
C22_TriggeredOnEmptyFrame ==
    /\ pc = "circle"
    /\ last_trigger = now
    /\ frame.w = 0
    /\ frame.h > 0
    /\ roi_for_extraction = <<>>
    /\ threads = <<>>

\* ---------------------------------------------------------------------
\* the contrast function
Distance(p, q) ==
    LET Abs(x) == IF x < 0 THEN -x ELSE x
    IN  Abs(p[1] - q[1]) + Abs(p[2] - q[2]) + Abs(p[3] - q[3])

\* C23: for every background (r, g, b) the contrast function returns the
\* inverted colour when its Manhattan distance to the background is at
\* least 300, and otherwise black when (r + g + b) / 3 > 127 and white when
\* not; (200,200,200) gives (55,55,55), (10,10,10) gives (245,245,245) and
\* (130,130,130) gives black.
C23_ContrastColor ==
    ret /= <<>> =>
        LET bg == arg[1]
            candidate == <<255 - bg[1], 255 - bg[2], 255 - bg[3]>>
        IN  /\ Distance(candidate, bg) >= 300 => ret[1] = candidate
            /\ (Distance(candidate, bg) < 300 /\ bg[1] + bg[2] + bg[3] > 3 * 127) =>
                   ret[1] = <<0, 0, 0>>
            /\ (Distance(candidate, bg) < 300 /\ bg[1] + bg[2] + bg[3] <= 3 * 127) =>
                   ret[1] = <<255, 255, 255>>
            /\ bg = <<200, 200, 200>> => ret[1] = <<55, 55, 55>>
            /\ bg = <<10, 10, 10>> => ret[1] = <<245, 245, 245>>
            /\ bg = <<130, 130, 130>> => ret[1] = <<0, 0, 0>>

\* the fallback at the boundary of the brightness test: an average of
\* exactly 127 gives white
C23_WhiteAtAverage127 ==
    /\ arg = << <<127, 127, 127>> >>
    /\ ret = << <<255, 255, 255>> >>

\* ---------------------------------------------------------------------
\* the hex conversions
IsSixDigits(h) == Len(h) = 6 /\ \A i \in 1..6 : h[i] \in HexChars

lowercase(h) ==
    [i \in 1..Len(h) |->
        IF h[i] \in Range(UpperHexDigits)
        THEN LowerHexDigits[CHOOSE j \in 1..16 : UpperHexDigits[j] = h[i]]
        ELSE h[i]]

\* C24 as stated: for every well-formed 6-digit hex string h, written in
\* either case and with or without the leading '#', converting h to a colour
\* and back gives lowercase(h).
C24_RoundTripOfAnySixDigits ==
    (ret /= <<>> /\ (IsSixDigits(arg[1]) \/ (arg[1] /= <<>> /\ Head(arg[1]) = "#"
                                               /\ IsSixDigits(Tail(arg[1]))))) =>
        ret[1] = lowercase(arg[1])

\* C24: for every string h made of '#' and six hexadecimal digits of either
\* case, converting h to a colour and back gives lowercase(h); for six
\* digits without the '#' it gives '#' followed by lowercase(h).
C24_RoundTripWithHash ==
    ret /= <<>> =>
        /\ (arg[1] /= <<>> /\ Head(arg[1]) = "#" /\ IsSixDigits(Tail(arg[1]))) =>
               ret[1] = lowercase(arg[1])
        /\ IsSixDigits(arg[1]) => ret[1] = <<"#">> \o lowercase(arg[1])

\* a string of mixed case came back in lower case
C24_MixedCaseLowered ==
    /\ arg = << <<"#", "F", "a", "0", "0", "a", "F">> >>
    /\ ret = << <<"#", "f", "a", "0", "0", "a", "f">> >>

\* ---------------------------------------------------------------------
\* the palette table
\* an entry without `rgb`, which includes one without any colour field
Malformed(color) == color.type = "dict" /\ "rgb" \notin Keys(color)

\* C25: a palette entry that lacks `rgb`, or lacks every colour field, is
\* drawn without raising and its swatch is the gray (128, 128, 128).
C25_MalformedEntryGray ==
    ret /= <<>> =>
        \A i \in DOMAIN arg[1] :
            Malformed(arg[1][i]) => ret[1][i].swatch = <<128, 128, 128>>

\* ---------------------------------------------------------------------
\* the exit code
\* C26: the process exits with 0 on a normal quit and with a non-zero code
\* when no frame source could be acquired.
C26_ExitCodes ==
    Exited =>
        /\ exit_path = "quit" => exit_code(exit_path) = 0
        /\ exit_path = "no_camera" => exit_code(exit_path) /= 0

\* ---------------------------------------------------------------------
\* segment files
\* C27: every recording segment has a file of its own: no two segments are
\* ever opened with the same sequence number.
C27_DistinctSequenceNumbers ==
    \A h1, h2 \in DOMAIN sinks :
        h1 /= h2 => sinks[h1].seq /= sinks[h2].seq

\* ---------------------------------------------------------------------
\* the order of the steps of one iteration
\* the place of each position of the main thread in the iteration
Stage ==
    [read |-> 1, cadence |-> 2, circle |-> 3, table |-> 4, table_locked |-> 4,
     table_drawn |-> 4, fps |-> 5, indicator |-> 6, footer |-> 7, write |-> 8,
     show |-> 9, key |-> 10, forced |-> 10, toggle |-> 10]

\* the overlays of a finished composition, in order: circle, palette table
\* when there is a palette, FPS, recording indicator when recording, footer
Composed(f) ==
    \E c \in {"circle", "circle_fallback"} :
    \E t \in {<<>>, <<"table">>, <<"table_partial">>} :
    \E r \in {<<>>, <<"rec">>} :
        f.drawn = <<c>> \o t \o <<"fps">> \o r \o <<"footer">>

\* the frames a sink was fed so far
Fed(S, h) == IF h \in DOMAIN S THEN S[h].writes ELSE <<>>

\* one step keeps the order of the iteration
StepInOrder ==
    /\ (MainStep /\ pc \in LoopPcs /\ pc' \in LoopPcs) =>
          \/ Stage[pc'] = Stage[pc] + 1
          \/ Stage[pc'] = Stage[pc] /\ Stage[pc] \in {4, 10}
          \/ Stage[pc] = 10 /\ pc' = "read"
    /\ (\E h \in DOMAIN sinks' : Fed(sinks', h) /= Fed(sinks, h)) =>
          /\ pc = "write"
          /\ Composed(frame)
          /\ \A h \in DOMAIN sinks' :
                Fed(sinks', h) \in {Fed(sinks, h), Append(Fed(sinks, h), frame.id)}
    /\ pc \in {"write", "show"} => frame' = frame

\* C28: in every iteration the main thread reads (and mirrors) a frame,
\* evaluates the cadence, composites circle, palette table, FPS, recording
\* indicator and footer in that order, feeds the recorder, displays the same
\* frame and polls the keyboard: no step is taken out of this order, and the
\* recorder is fed only a frame whose composition is finished.
C28_StepOrder == [][StepInOrder]_vars

\* the second frame, composited while recording, was fed to the recorder
\* and is about to be displayed
C28_ComposedFrameFed ==
    /\ pc = "show"
    /\ frame.id = 2
    /\ frame.drawn = <<"circle", "fps", "rec", "footer">>
    /\ video_writer /= None
    /\ Last(sinks[video_writer].writes) = frame.id

\* ---------------------------------------------------------------------
\* a job in flight
\* the thread's result is what the palette state holds
Published(t) ==
    /\ threads[t].pc = "returning"
    /\ ~threads[t].failed
    /\ threads[t].colors /= <<>>
    /\ published = [colors |-> Take(threads[t].colors, n_colors),
                    time |-> threads[t].stamp]
    /\ PaletteState = <<published.colors, published.time>>

\* a thread stops being alive only by returning from extract()
NotCancelled ==
    \A t \in DOMAIN threads :
        /\ t \in DOMAIN threads'
        /\ (is_alive(t) /\ threads'[t].pc = "dead") => threads[t].pc = "returning"
        /\ (is_alive(t) /\ MainStep) => threads'[t] = threads[t]

\* C29: while the main loop runs, no step of it ends or changes a job in
\* flight; the job eventually completes, and a job whose clustering gave a
\* result eventually publishes it.
C29_JobCompletes ==
    /\ [][NotCancelled]_vars
    /\ (AliveThreads /= {}) ~> (AliveThreads = {} \/ Exited)
    /\ (\E t \in DOMAIN threads : threads[t].pc = "computed")
          ~> ((\E t \in DOMAIN threads : Published(t)) \/ Exited)

\* the job of the first frame is publishing while the main loop, whose
\* trigger for the second frame was due and dropped, is drawing that frame
C29_PublishingAfterDroppedTrigger ==
    /\ \E t \in DOMAIN threads : threads[t].pc = "wrote"
    /\ roi_for_extraction /= <<>>
    /\ roi_for_extraction[1].src = 1
    /\ frame.id = 2
    /\ last_trigger = now
    /\ pc \in {"circle", "table"}

\* ---------------------------------------------------------------------
\* the lock discipline
\* one step touches the palette state only with the lock held: the worker
\* writes it (lines 133-134), the main thread reads the timestamp for the
\* cadence (line 496) and the palette for the table (line 511)
AccessUnderLock ==
    /\ PaletteState' /= PaletteState =>
          /\ extraction_lock \in DOMAIN threads
          /\ threads[extraction_lock].pc \in {"locked", "wrote"}
          /\ threads'[extraction_lock].pc /= threads[extraction_lock].pc
    /\ (pc = "table_locked" /\ MainStep) => extraction_lock = MainThread
    /\ (pc = "cadence" /\ MainStep) => extraction_lock = MainThread

\* C30: every write of the palette and of its timestamp is made by the
\* worker holding the lock, and every read of them by the main loop is made
\* holding the lock.
C30_AccessUnderLock == [][AccessUnderLock]_vars

\* ---------------------------------------------------------------------
\* the entry of a cluster
\* v is an integer nearest to the fraction x: |v - n/d| <= 1/2
Nearest(v, x) ==
    /\ 2 * v * x[2] - 2 * x[1] <= x[2]
    /\ 2 * x[1] - 2 * v * x[2] <= x[2]

\* C31: the rgb of a palette entry is the cluster centre rounded to the
\* nearest integer in each channel, and its hex is '#' followed by the two
\* lowercase hexadecimal digits of r, g and b, so rgb_to_hex(rgb) = hex.
C31_RoundedCenter ==
    ret /= <<>> =>
        /\ Nearest(ret[1].rgb[1], arg[1][3])
        /\ Nearest(ret[1].rgb[2], arg[1][2])
        /\ Nearest(ret[1].rgb[3], arg[1][1])
        /\ rgb_to_hex(ret[1].rgb) = ret[1].hex

\* ---------------------------------------------------------------------
\* the lock
\* the steps a thread takes inside `with self.extraction_lock`
WorkerSection(t) == WriteColors(t) \/ WriteStamp(t) \/ ReleaseLock(t)

\* the lock is held only inside one of the two `with` blocks, never by the
\* thread that is about to take it, and whoever holds it can go on
LockWellUsed ==
    /\ extraction_lock = MainThread <=> pc \in {"table_locked", "table_drawn"}
    /\ \A t \in DOMAIN threads :
          extraction_lock = t <=> threads[t].pc \in {"locked", "wrote", "stamped"}
    /\ extraction_lock \in {None, MainThread} \cup DOMAIN threads
    /\ extraction_lock = MainThread => ENABLED LockSection
    /\ \A t \in DOMAIN threads :
          (extraction_lock = t /\ ~Exited) => ENABLED WorkerSection(t)

\* C32: the lock is never taken by the thread that holds it and is always
\* released: whether or not drawing the table raises or the clustering
\* fails, a held lock becomes free again while the program runs, so neither
\* thread waits for it forever.
C32_LockAlwaysReleased ==
    /\ []LockWellUsed
    /\ (extraction_lock /= None) ~> (extraction_lock = None \/ Exited)

\* drawing the table has raised inside the main thread's `with` block while
\* a thread is waiting for the lock to publish
C32_RaisedWhileWorkerWaits ==
    /\ pc = "table_drawn"
    /\ Last(frame.drawn) = "table_partial"
    /\ extraction_lock = MainThread
    /\ \E t \in DOMAIN threads : threads[t].pc = "computed"

\* ---------------------------------------------------------------------
\* the snapshot
\* one step leaves the snapshot of a job in flight alone, a trigger that
\* starts a job stores the rectangle of the frame as it is then, and what a
\* thread has clustered is the stored snapshot
SnapshotIsolated ==
    /\ AliveThreads /= {} => roi_for_extraction' = roi_for_extraction
    /\ roi_for_extraction' /= roi_for_extraction =>
          /\ TriggerStep
          /\ roi_for_extraction' = <<extract_roi_from_circle(frame)>>
    /\ \A t \in DOMAIN threads' :
          threads'[t].input \in {<<>>, roi_for_extraction'}

\* C33: a job clusters exactly the pixels copied when it was triggered: the
\* pending snapshot is never overwritten while a job is in flight, and what
\* the main loop draws on the frame after the trigger does not change the
\* job's input.
C33_SnapshotIsolation == [][SnapshotIsolated]_vars

\* a job has clustered its snapshot after the main loop drew on the frame
\* the snapshot was taken from
C33_ClusteredAfterDrawing ==
    \E t \in DOMAIN threads :
        /\ threads[t].pc = "computed"
        /\ threads[t].input[1].src = frame.id
        /\ threads[t].input[1].overlays = <<>>
        /\ frame.drawn /= <<>>

\* ---------------------------------------------------------------------
\* what a job samples
\* C34: every job, started by the cadence or by the key 'c', samples the
\* frame before anything is drawn on it: no overlay of the compositor is
\* part of a snapshot or of a job's input.
C34_SampleUnannotated ==
    /\ roi_for_extraction /= <<>> => roi_for_extraction[1].overlays = <<>>
    /\ \A t \in DOMAIN threads :
          threads[t].input /= <<>> => threads[t].input[1].overlays = <<>>

\* ---------------------------------------------------------------------
\* the contrast of the returned colour
\* C35: for every background with channels in 0..255 the colour the
\* contrast function returns, inverted colour, black or white, has a
\* Manhattan distance of at least 300 from the background.
C35_ContrastAtLeast300 ==
    ret /= <<>> => Distance(ret[1], arg[1]) >= 300

\* a dark gray near the middle, whose inverted colour is too close, got white
C35_WhiteForDarkGray ==
    /\ arg = << <<78, 78, 78>> >>
    /\ Distance(<<255 - 78, 255 - 78, 255 - 78>>, arg[1]) < 300
    /\ ret = << <<255, 255, 255>> >>

\* ---------------------------------------------------------------------
\* what is published
\* a palette of 1 to n_colors entries, each of at least one pixel
Populated(p) ==
    /\ 1 <= Len(p)
    /\ Len(p) <= n_colors
    /\ \A i \in DOMAIN p : p[i].count >= 1

\* C36: the worker never publishes an empty palette nor an entry of
\* percentage 0: what a thread is about to publish and what is published
\* has between 1 and n_colors entries, each with a pixel count of at least
\* 1, and a palette state that is not empty never becomes empty again.
C36_NeverEmptyAgain ==
    /\ [](/\ current_colors /= <<>> => Populated(current_colors)
          /\ \A t \in DOMAIN threads :
                threads[t].pc \in {"computed", "locked", "wrote", "stamped"} =>
                    Populated(Take(threads[t].colors, n_colors)))
    /\ [][/\ current_colors /= <<>> => current_colors' /= <<>>
          /\ current_colors' /= current_colors => current_colors' /= <<>>]_vars

\* a palette was published that has fewer entries than clusters were asked
\* for: a cluster got no pixel
C36_FewerEntriesThanClusters ==
    /\ current_colors /= <<>>
    /\ published.colors = current_colors
    /\ Len(current_colors) < Min(n_colors, SamplePixels)

\* ---------------------------------------------------------------------
\* the recording indicator
\* the indicator is being drawn on the frame
IndicatorDrawn == pc = "indicator" /\ frame'.drawn = Append(frame.drawn, "rec")

\* C37: the recording indicator is drawn only while a segment is active,
\* and the remaining time it shows, the budget minus the time elapsed in
\* the current segment, is then between 0 and the budget.
C37_RemainingInBudget ==
    [][IndicatorDrawn =>
          /\ record_video /\ recording_active /\ video_writer /= None
          /\ 0 <= remaining_time(Recorder)
          /\ remaining_time(Recorder) <= video_segment_duration]_vars

====
